---- MODULE Spec2Model ----
(***************************************************************************)
(* Model of houston's GitHub service (src/src/lib/service/github.ts).      *)
(*                                                                         *)
(* JavaScript strings are sequences of one-character strings, so that      *)
(* concatenation, templates and Number() are computed and not assumed.     *)
(* null and undefined are the two sentinels NULL and UNDEFINED.  Objects   *)
(* (logs, packages, identities) are records.                               *)
(***************************************************************************)
EXTENDS Integers, Sequences, FiniteSets, TLC

\* ------------------------------------------------------------------------
\* Bounds of the model
\* ------------------------------------------------------------------------
\* number of callers that may have a call in flight at the same time
MaxCallers == 2

\* number of submodules the cloned repository declares, at all depths together
MaxSubmodules == 3

\* number of references() calls one behaviour makes
MaxReferencesCalls == 2

Callers == 1..MaxCallers

\* ------------------------------------------------------------------------
\* JavaScript values
\* ------------------------------------------------------------------------
NULL == <<"NULL">>

UNDEFINED == <<"UNDEFINED">>

Digits == <<"0", "1", "2", "3", "4", "5", "6", "7", "8", "9">>

IsDigit(c) == \E i \in 1..10 : Digits[i] = c

DigitValue(c) == (CHOOSE i \in 1..10 : Digits[i] = c) - 1

\* Not-a-Number, the result of Number() on a string that is not a numeral
NaN == -1

RECURSIVE DecimalValue(_)
DecimalValue(s) ==
  IF s = <<>> THEN 0
  ELSE 10 * DecimalValue(SubSeq(s, 1, Len(s) - 1)) + DigitValue(s[Len(s)])

\* Number(v) of JavaScript, for null, undefined and strings of letters and
\* digits: null is 0, the empty string is 0, a decimal numeral is its value
\* (leading zeros dropped), anything else is NaN.
Number(v) ==
  IF v = NULL THEN 0
  ELSE IF v = UNDEFINED THEN NaN
  ELSE IF \A i \in 1..Len(v) : IsDigit(v[i]) THEN DecimalValue(v)
  ELSE NaN

RECURSIVE NatToString(_)
NatToString(n) ==
  IF n < 10 THEN <<Digits[n + 1]>>
  ELSE NatToString(n \div 10) \o <<Digits[(n % 10) + 1]>>

\* `${v}` of JavaScript: how a value is spliced into a template string
Template(v) ==
  IF v = NULL THEN <<"n", "u", "l", "l">>
  ELSE IF v = UNDEFINED THEN <<"u", "n", "d", "e", "f", "i", "n", "e", "d">>
  ELSE v

\* `${n}` for a number n
TemplateNumber(n) ==
  IF n = NaN THEN <<"N", "a", "N">> ELSE NatToString(n)

\* ------------------------------------------------------------------------
\* Identities, tokens, logs and packages the callers supply
\* ------------------------------------------------------------------------
\* the sentinel user name of app authentication (github.ts:168, 382)
Installation == <<"i", "n", "s", "t", "a", "l", "l", "a", "t", "i", "o", "n">>

XAccessToken == <<"x", "-", "a", "c", "c", "e", "s", "s", "-", "t", "o", "k", "e", "n">>

\* installation ids as they are held in authPassword: "42" and "07"
InstallationIds == {<<"4", "2">>, <<"0", "7">>}

\* an identity is the pair of fields getAuthorization reads from `this`
Identities ==
  [authUsername : {Installation}, authPassword : InstallationIds]
    \cup {[authUsername |-> u, authPassword |-> w] :
            <<u, w>> \in {<<XAccessToken, <<"t", "o", "k">>>>, <<NULL, NULL>>}}

\* tokens the installation-token endpoint may answer with
Tokens == {<<"v", "1">>, <<"v", "2">>}

\* ids the issue endpoint may answer with
IssueIds == {<<"1", "1">>, <<"1", "2">>}

Logs ==
  [githubId : {NULL, <<"9">>}, title : {<<"T">>}, body : {<<"B">>}]

Packages ==
  [githubId : {NULL, <<"5">>}, path : {<<"/", "p">>}, name : {<<"n">>},
   description : {NULL}]

BearerPrefix == <<"B", "e", "a", "r", "e", "r", " ">>

TokenPrefix == <<"t", "o", "k", "e", "n", " ">>

GithubCom == <<"g", "i", "t", "h", "u", "b", ".", "c", "o", "m">>

RefsHeadsMaster ==
  <<"r", "e", "f", "s", "/", "h", "e", "a", "d", "s", "/", "m", "a", "s", "t", "e", "r">>

\* the fields of a GitHub object after construction: host and reference have
\* initialisers (github.ts:51, 88), the other four are declared only
NewGitHub ==
  [host |-> GithubCom, username |-> UNDEFINED, repository |-> UNDEFINED,
   authUsername |-> UNDEFINED, authPassword |-> UNDEFINED,
   reference |-> RefsHeadsMaster]

\* ------------------------------------------------------------------------
\* JavaScript string methods, on sequences of characters
\* ------------------------------------------------------------------------
\* s.indexOf(t): the 0-based position of the first occurrence, or -1
IndexOf(s, t) ==
  LET at == {i \in 1..(Len(s) - Len(t) + 1) : SubSeq(s, i, i + Len(t) - 1) = t}
  IN IF at = {} THEN -1 ELSE (CHOOSE i \in at : \A j \in at : i <= j) - 1

\* s.lastIndexOf(t)
LastIndexOf(s, t) ==
  LET at == {i \in 1..(Len(s) - Len(t) + 1) : SubSeq(s, i, i + Len(t) - 1) = t}
  IN IF at = {} THEN -1 ELSE (CHOOSE i \in at : \A j \in at : i >= j) - 1

StartsWith(s, t) == Len(t) <= Len(s) /\ SubSeq(s, 1, Len(t)) = t

EndsWith(s, t) == Len(t) <= Len(s) /\ SubSeq(s, Len(s) - Len(t) + 1, Len(s)) = t

\* s.slice(i)
Slice(s, i) == SubSeq(s, i + 1, Len(s))

\* s.slice(0, i)
SliceTo(s, i) == SubSeq(s, 1, i)

\* s.replace(t, r) with a string pattern: the first occurrence only
Replace(s, t, r) ==
  LET i == IndexOf(s, t)
  IN IF i = -1 THEN s ELSE SliceTo(s, i) \o r \o Slice(s, i + Len(t))

\* s.split(c) for a one-character separator
RECURSIVE Split(_, _)
Split(s, c) ==
  LET i == IndexOf(s, <<c>>)
  IN IF i = -1 THEN <<s>> ELSE <<SliceTo(s, i)>> \o Split(Slice(s, i + 1), c)

\* ------------------------------------------------------------------------
\* The url setter and getter (github.ts:166-213)
\* ------------------------------------------------------------------------
Github == <<"g", "i", "t", "h", "u", "b">>

GitAt == <<"g", "i", "t", "@">>

HttpsSlashes == <<"h", "t", "t", "p", "s", ":", "/", "/">>

ColonGithubCom == <<":", "/", "/", "g", "i", "t", "h", "u", "b", ".", "c", "o", "m", ":">>

SlashGithubCom == <<":", "/", "/", "g", "i", "t", "h", "u", "b", ".", "c", "o", "m", "/">>

DotGit == <<".", "g", "i", "t">>

HttpsDefaultPort == 443

\* the result of new URL(s) that throws
InvalidURL ==
  [ok |-> FALSE, username |-> <<>>, password |-> <<>>, host |-> <<>>,
   pathname |-> <<>>]

\* new URL.URL(s) for strings of letters, digits and - . : @ / : a string
\* with no scheme is not a URL; after https:// the authority runs to the
\* first slash, the credentials to its last @, the user name to their
\* first colon; what follows the colon of the host must be a port number
NewURL(s) ==
  IF ~StartsWith(s, HttpsSlashes) THEN InvalidURL
  ELSE
    LET rest == Slice(s, Len(HttpsSlashes))
        slash == IndexOf(rest, <<"/">>)
        authority == IF slash = -1 THEN rest ELSE SliceTo(rest, slash)
        pathname == IF slash = -1 THEN <<"/">> ELSE Slice(rest, slash)
        at == LastIndexOf(authority, <<"@">>)
        userinfo == IF at = -1 THEN <<>> ELSE SliceTo(authority, at)
        hostport == IF at = -1 THEN authority ELSE Slice(authority, at + 1)
        colon == IndexOf(userinfo, <<":">>)
        hcolon == IndexOf(hostport, <<":">>)
        hostname == IF hcolon = -1 THEN hostport ELSE SliceTo(hostport, hcolon)
        port == IF hcolon = -1 THEN <<>> ELSE Slice(hostport, hcolon + 1)
    IN IF hostname = <<>> \/ \E i \in 1..Len(port) : ~IsDigit(port[i])
       THEN InvalidURL
       ELSE [ok |-> TRUE,
             username |-> IF colon = -1 THEN userinfo ELSE SliceTo(userinfo, colon),
             password |-> IF colon = -1 THEN <<>> ELSE Slice(userinfo, colon + 1),
             host |-> IF port = <<>> \/ DecimalValue(port) = HttpsDefaultPort
                      THEN hostname
                      ELSE hostname \o <<":">> \o NatToString(DecimalValue(port)),
             pathname |-> pathname]

\* IsGitHub that lets every string through
IsAnything(p) == TRUE

\* line 189: the string names GitHub somewhere
IsGitHub(p) == IndexOf(p, Github) # -1

\* lines 194-196: the three rewrites before the string is parsed
HttpPath(p) ==
  LET https == IF StartsWith(p, GitAt) THEN Replace(p, GitAt, HttpsSlashes) ELSE p
      slashed == Replace(https, ColonGithubCom, SlashGithubCom)
  IN IF EndsWith(slashed, DotGit)
     THEN SliceTo(slashed, Len(slashed) - Len(DotGit))
     ELSE slashed

\* Credentials that keeps a user name that came without a password
CredentialsAsParsed(url) ==
  [authUsername |-> IF url.username # <<>> THEN url.username ELSE NULL,
   authPassword |-> IF url.password # <<>> THEN url.password ELSE NULL]

\* lines 204-212: the credentials of the parsed URL, an empty one being
\* null, and a user name alone being the password of x-access-token
Credentials(url) ==
  LET authUsername == IF url.username # <<>> THEN url.username ELSE NULL
      authPassword == IF url.password # <<>> THEN url.password ELSE NULL
  IN IF authUsername # NULL /\ authPassword = NULL
     THEN [authUsername |-> XAccessToken, authPassword |-> authUsername]
     ELSE [authUsername |-> authUsername, authPassword |-> authPassword]

\* the i-th element of a destructured array, undefined past its end
Element(a, i) == IF i <= Len(a) THEN a[i] ELSE UNDEFINED

\* lines 188-213: the setter on the object g; it throws before it assigns
SetUrl(g, p) ==
  IF ~IsGitHub(p)
  THEN [threw |-> TRUE, err |-> "Given URL is not a GitHub repository", gh |-> g]
  ELSE
    LET url == NewURL(HttpPath(p))
    IN IF ~url.ok
       THEN [threw |-> TRUE, err |-> "Invalid URL", gh |-> g]
       ELSE LET parts == Split(url.pathname, "/")
                c == Credentials(url)
            IN [threw |-> FALSE, err |-> "",
                gh |-> [g EXCEPT !.host = url.host,
                                 !.username = Element(parts, 2),
                                 !.repository = Element(parts, 3),
                                 !.authUsername = c.authUsername,
                                 !.authPassword = c.authPassword]]

\* v != null of JavaScript
NotNullish(v) == v # NULL /\ v # UNDEFINED

\* Auth that does not look for the sentinel
AuthOfAnyUser(g) ==
  IF NotNullish(g.authUsername) \/ NotNullish(g.authPassword)
  THEN Template(g.authUsername) \o <<":">> \o Template(g.authPassword)
  ELSE NULL

\* lines 167-172: the credentials the getter puts in the URL
Auth(g) ==
  IF g.authUsername # Installation
       /\ (NotNullish(g.authUsername) \/ NotNullish(g.authPassword))
  THEN Template(g.authUsername) \o <<":">> \o Template(g.authPassword)
  ELSE NULL

\* what url.format makes of one character of auth: @ and / are escaped,
\* letters, digits, - . and : stay
EncodeAuthChar(c) ==
  IF c = "@" THEN <<"%", "4", "0">>
  ELSE IF c = "/" THEN <<"%", "2", "F">>
  ELSE <<c>>

RECURSIVE EncodeAuth(_)
EncodeAuth(s) ==
  IF s = <<>> THEN <<>> ELSE EncodeAuthChar(Head(s)) \o EncodeAuth(Tail(s))

Https == <<"h", "t", "t", "p", "s">>

\* URL.format of an object with auth, host, pathname and protocol 'https'
UrlFormat(o) ==
  o.protocol \o <<":", "/", "/">>
    \o (IF o.auth = NULL \/ o.auth = <<>> THEN <<>> ELSE EncodeAuth(o.auth) \o <<"@">>)
    \o o.host \o o.pathname

\* lines 166-180: the getter
Url(g) ==
  UrlFormat([auth |-> Auth(g), host |-> g.host, protocol |-> Https,
             pathname |-> <<"/">> \o Template(g.username) \o <<"/">>
                            \o Template(g.repository) \o DotGit])

\* ------------------------------------------------------------------------
\* The URL strings assigned to a GitHub object
\* ------------------------------------------------------------------------
GithubExampleCom == <<"g", "i", "t", "h", "u", "b", ".", "e", "x", "a", "m", "p", "l", "e", ".", "c", "o", "m">>

GitlabCom == <<"g", "i", "t", "l", "a", "b", ".", "c", "o", "m">>

Hosts == {GithubCom, GithubExampleCom, GitlabCom}

Owners == {<<"o">>}

Names == {<<"n">>, <<"m">>}

\* user name and password in the URL; <<>> is none
UserInfos ==
  {<<u, p>> : u \in {Installation, <<"u">>}, p \in {<<>>, <<"4", "2">>}}
    \cup {<< <<>>, <<>> >>}

\* the forms of a URL string: https://[user[:pass]@]host/owner/name[.git],
\* git@host:owner/name[.git], https://host:owner/name, and host/owner/name
\* with no scheme
Forms == {"https", "ssh", "colon", "bare"}

UrlInputs ==
  {i \in [form : Forms, userinfo : UserInfos, host : Hosts, owner : Owners,
          name : Names, suffix : {<<>>, DotGit}] :
     /\ i.form # "https" => i.userinfo = << <<>>, <<>> >>
     /\ i.form \in {"colon", "bare"} => i.suffix = <<>>}

\* no URL assigned yet
NoInput ==
  [form |-> "none", userinfo |-> << <<>>, <<>> >>, host |-> <<>>,
   owner |-> <<>>, name |-> <<>>, suffix |-> <<>>]

\* the string of an input
Render(i) ==
  LET user == i.userinfo[1]
      pass == i.userinfo[2]
      path == i.owner \o <<"/">> \o i.name \o i.suffix
  IN CASE i.form = "https" ->
            HttpsSlashes
              \o (IF user = <<>> THEN <<>>
                  ELSE user \o (IF pass = <<>> THEN <<>> ELSE <<":">> \o pass)
                         \o <<"@">>)
              \o i.host \o <<"/">> \o path
       [] i.form = "ssh" -> GitAt \o i.host \o <<":">> \o path
       [] i.form = "colon" -> HttpsSlashes \o i.host \o <<":">> \o path
       [] OTHER -> i.host \o <<"/">> \o path

\* no url accessor used yet
NoResult == [op |-> "none", arg |-> NoInput, threw |-> FALSE, val |-> UNDEFINED]

\* ------------------------------------------------------------------------
\* State
\* ------------------------------------------------------------------------
VARIABLES
  cache,   \* this.cache: key -> token, NULL when the key has no entry
  call,    \* per caller: the frame of the call it has in flight
  remote,  \* the repository at this.url: its references and submodules
  dest,    \* the destination path of clone: what is on disk there
  cl,      \* the frame of the clone call
  issues,  \* the issues created on the repository at api.github.com
  tmp,     \* the directories that exist under this.tmpFolder
  rf,      \* the frame of the references call
  gh,      \* the fields of a GitHub object the url accessors work on
  res      \* the outcome of the last url accessor used on gh

vars == <<cache, call, remote, dest, cl, issues, tmp, rf, gh, res>>

cloneVars == <<remote, dest, cl>>

authVars == <<cache, call, issues>>

refsVars == <<tmp, rf>>

urlVars == <<gh, res>>

\* the frame of a caller with no call made yet
IdleFrame ==
  [op |-> "none", pc |-> "idle", self |-> NULL, arg |-> NULL,
   cachedToken |-> NULL, token |-> NULL, auth |-> NULL, hasLabel |-> FALSE,
   labelResponse |-> "none", createResponse |-> "none",
   issueResponse |-> "none", body |-> [id |-> UNDEFINED],
   ret |-> [tag |-> "none", val |-> NULL], err |-> "", hist |-> <<>>]

\* a caller can start a call when it has none in flight
CanCall(p) == call[p].pc \in {"idle", "done", "failed"}

\* the observable events of a call, in order: <<kind, argument, ...>>
Emit(f, e) == [f EXCEPT !.hist = Append(@, e)]

NetworkKinds ==
  {"POST access_tokens", "GET labels/AppCenter", "POST labels", "POST issues",
   "GET releases/tags", "POST upload"}

CacheKinds == {"cache.get", "cache.set"}

FileKinds == {"fs.readFile", "fs.open", "fs.stat", "fs.createReadStream"}

CountKind(h, kinds) == Cardinality({i \in 1..Len(h) : h[i][1] \in kinds})

\* a rejected promise with no handler on the way: the call fails with e
Throw(f, e) == [f EXCEPT !.pc = "failed", !.err = e]

\* ------------------------------------------------------------------------
\* getAuthorization (github.ts:381-396)
\* ------------------------------------------------------------------------
\* An async method runs without interruption from its call to its first
\* await that has to wait, so the code before that await belongs to the
\* step of the call.

\* `return` of getAuthorization: to the caller, or to uploadLog at line 340
AuthReturn(f, v) ==
  IF f.op = "getAuthorization"
  THEN [f EXCEPT !.pc = "done", !.ret = [tag |-> "string", val |-> v]]
  ELSE [f EXCEPT !.pc = "labelGet", !.auth = v]

\* GetAuthorization that puts the user name, not the password, after Bearer
GetAuthorizationUsername(f) ==
  IF f.self.authUsername # Installation
  THEN AuthReturn(f, BearerPrefix \o Template(f.self.authUsername))
  ELSE [f EXCEPT !.pc = "cache.get"]

\* lines 382-385: the test of the sentinel; the frame after it
GetAuthorization(f) ==
  IF f.self.authUsername # Installation
  THEN AuthReturn(f, BearerPrefix \o Template(f.self.authPassword))
  ELSE [f EXCEPT !.pc = "cache.get"]

\* line 381: a caller calls getAuthorization on an identity
CallGetAuthorization(p) ==
  /\ CanCall(p)
  /\ \E id \in Identities :
       call' = [call EXCEPT ![p] =
                  GetAuthorization([IdleFrame EXCEPT !.op = "getAuthorization",
                                                     !.self = id])]
  /\ UNCHANGED <<cache, issues, cloneVars, refsVars, urlVars>>

\* CacheGet that exchanges a new token whether or not one is cached
CacheGetAlwaysExchange(p) ==
  /\ call[p].pc = "cache.get"
  /\ LET key == call[p].self.authPassword
         f == Emit([call[p] EXCEPT !.cachedToken = cache[key]],
                   <<"cache.get", key>>)
     IN call' = [call EXCEPT ![p] =
          Emit([f EXCEPT !.pc = "generateJwt.readFile"],
               <<"generateToken", TemplateNumber(Number(key))>>)]
  /\ UNCHANGED <<cache, issues, cloneVars, refsVars, urlVars>>

\* lines 385-387, 393: the read of the cache
CacheGet(p) ==
  /\ call[p].pc = "cache.get"
  /\ LET key == call[p].self.authPassword
         f == Emit([call[p] EXCEPT !.cachedToken = cache[key]],
                   <<"cache.get", key>>)
     IN call' = [call EXCEPT ![p] =
          IF f.cachedToken = NULL
          THEN Emit([f EXCEPT !.pc = "generateJwt.readFile"],
                    <<"generateToken", TemplateNumber(Number(key))>>)
          ELSE AuthReturn(f, TokenPrefix \o Template(f.cachedToken))]
  /\ UNCHANGED <<cache, issues, cloneVars, refsVars, urlVars>>

\* lines 405-406: the signing key is read
GenerateJwtReadFile(p) ==
  /\ call[p].pc = "generateJwt.readFile"
  /\ LET f == Emit(call[p], <<"fs.readFile">>)
     IN \/ call' = [call EXCEPT ![p] = [f EXCEPT !.pc = "generateJwt.sign"]]
        \/ call' = [call EXCEPT ![p] = Throw(f, "readFile")]
  /\ UNCHANGED <<cache, issues, cloneVars, refsVars, urlVars>>

\* lines 416-424: the assertion is signed
GenerateJwtSign(p) ==
  /\ call[p].pc = "generateJwt.sign"
  /\ LET f == Emit(call[p], <<"jsonwebtoken.sign">>)
     IN \/ call' = [call EXCEPT ![p] = [f EXCEPT !.pc = "generateToken.post"]]
        \/ call' = [call EXCEPT ![p] = Throw(f, "sign")]
  /\ UNCHANGED <<cache, issues, cloneVars, refsVars, urlVars>>

\* GenerateTokenPost that sends the request a second time when it fails
GenerateTokenPostRetry(p) ==
  /\ call[p].pc = "generateToken.post"
  /\ LET installation == Number(call[p].self.authPassword)
         f == Emit(call[p], <<"POST access_tokens", TemplateNumber(installation)>>)
     IN \/ \E t \in Tokens :
             call' = [call EXCEPT ![p] = [f EXCEPT !.pc = "cache.set", !.token = t]]
        \/ call' = [call EXCEPT ![p] =
             IF CountKind(f.hist, {"POST access_tokens"}) < 2
             THEN f ELSE Throw(f, "exchange")]
  /\ UNCHANGED <<cache, issues, cloneVars, refsVars, urlVars>>

\* lines 438-443: the exchange request, for installation Number(authPassword)
GenerateTokenPost(p) ==
  /\ call[p].pc = "generateToken.post"
  /\ LET installation == Number(call[p].self.authPassword)
         f == Emit(call[p], <<"POST access_tokens", TemplateNumber(installation)>>)
     IN \/ \E t \in Tokens :
             call' = [call EXCEPT ![p] = [f EXCEPT !.pc = "cache.set", !.token = t]]
        \/ call' = [call EXCEPT ![p] = Throw(f, "exchange")]
  /\ UNCHANGED <<cache, issues, cloneVars, refsVars, urlVars>>

\* CacheSet that returns the token without storing it
CacheSetNoStore(p) ==
  /\ call[p].pc = "cache.set"
  /\ LET key == call[p].self.authPassword
         f == Emit(call[p], <<"cache.set", key, call[p].token>>)
     IN /\ cache' = cache
        /\ call' = [call EXCEPT ![p] = AuthReturn(f, TokenPrefix \o Template(f.token))]
        /\ UNCHANGED <<issues, cloneVars, refsVars, urlVars>>

\* CacheSet that keeps an entry another call has stored in the meantime
CacheSetIfAbsent(p) ==
  /\ call[p].pc = "cache.set"
  /\ LET key == call[p].self.authPassword
         f == Emit(call[p], <<"cache.set", key, call[p].token>>)
     IN /\ cache' = [cache EXCEPT ![key] = IF @ = NULL THEN f.token ELSE @]
        /\ call' = [call EXCEPT ![p] = AuthReturn(f, TokenPrefix \o Template(f.token))]
        /\ UNCHANGED <<issues, cloneVars, refsVars, urlVars>>

\* lines 389-391: the write of the cache and the return
CacheSet(p) ==
  /\ call[p].pc = "cache.set"
  /\ LET key == call[p].self.authPassword
         f == Emit(call[p], <<"cache.set", key, call[p].token>>)
     IN /\ cache' = [cache EXCEPT ![key] = f.token]
        /\ call' = [call EXCEPT ![p] = AuthReturn(f, TokenPrefix \o Template(f.token))]
        /\ UNCHANGED <<issues, cloneVars, refsVars, urlVars>>

\* the cache service drops an entry by its own expiry policy
CacheExpire ==
  /\ \E k \in InstallationIds :
       /\ cache[k] # NULL
       /\ cache' = [cache EXCEPT ![k] = NULL]
  /\ UNCHANGED <<call, issues, cloneVars, refsVars, urlVars>>

\* ------------------------------------------------------------------------
\* uploadPackage (github.ts:264-324)
\* ------------------------------------------------------------------------
\* UploadPackage without the guard of line 265: the release is looked up
\* even for a package that is already published
UploadPackageNoGuard(f) ==
  IF f.arg.githubId # NULL
  THEN [Emit(f, <<"GET releases/tags", NULL>>)
          EXCEPT !.pc = "done", !.ret = [tag |-> "package", val |-> f.arg]]
  ELSE [f EXCEPT !.pc = "done", !.ret = [tag |-> "package", val |-> f.arg]]

\* lines 265-269: the guard on githubId, then the unconditional `return pkg`;
\* lines 271-323 follow a return and are never executed
UploadPackage(f) ==
  IF f.arg.githubId # NULL
  THEN [f EXCEPT !.pc = "done", !.ret = [tag |-> "package", val |-> f.arg]]
  ELSE [f EXCEPT !.pc = "done", !.ret = [tag |-> "package", val |-> f.arg]]

\* line 264: a caller calls uploadPackage
CallUploadPackage(p) ==
  /\ CanCall(p)
  /\ \E id \in Identities, pkg \in Packages :
       call' = [call EXCEPT ![p] =
                  UploadPackage([IdleFrame EXCEPT !.op = "uploadPackage",
                                                  !.self = id, !.arg = pkg])]
  /\ UNCHANGED <<cache, issues, cloneVars, refsVars, urlVars>>

\* ------------------------------------------------------------------------
\* uploadLog (github.ts:335-372)
\* ------------------------------------------------------------------------
\* UploadLog without the test of githubId at lines 336-338
UploadLogNoGuard(f) == GetAuthorization(f)

\* lines 335-340: the guard on githubId, then the await of getAuthorization
UploadLog(f) ==
  IF f.arg.githubId # NULL
  THEN [f EXCEPT !.pc = "done", !.ret = [tag |-> "undefined", val |-> UNDEFINED]]
  ELSE GetAuthorization(f)

\* the log a caller holds from its last uploadLog, if that returned one
ReturnedLogs(f) ==
  IF f.op = "uploadLog" /\ f.pc = "done" /\ f.ret.tag = "log"
  THEN {f.ret.val}
  ELSE {}

\* line 335: a caller calls uploadLog, with a log of its own or with the
\* log its previous uploadLog returned
CallUploadLog(p) ==
  /\ CanCall(p)
  /\ \E id \in Identities, log \in Logs \cup ReturnedLogs(call[p]) :
       call' = [call EXCEPT ![p] =
                  UploadLog([IdleFrame EXCEPT !.op = "uploadLog",
                                              !.self = id, !.arg = log])]
  /\ UNCHANGED <<cache, issues, cloneVars, refsVars, urlVars>>

\* the answers to the request for the label: it exists, 404, 401, no answer
LabelResponses == {"ok", "notFound", "unauthorized", "network"}

\* LabelGet that takes only a 404 for a missing label and fails otherwise
LabelGetOnlyNotFound(p) ==
  /\ call[p].pc = "labelGet"
  /\ LET f == Emit(call[p], <<"GET labels/AppCenter", call[p].auth>>)
     IN \E outcome \in LabelResponses :
          LET g == [f EXCEPT !.hasLabel = (outcome = "ok"),
                             !.labelResponse = outcome]
          IN call' = [call EXCEPT ![p] =
               IF outcome \in {"unauthorized", "network"}
               THEN Throw(g, "labelGet")
               ELSE IF ~g.hasLabel
               THEN [g EXCEPT !.pc = "labelCreate"]
               ELSE [g EXCEPT !.pc = "issueCreate"]]
  /\ UNCHANGED <<cache, issues, cloneVars, refsVars, urlVars>>

\* lines 342-347: the probe of the label; any failure of it becomes `false`
LabelGet(p) ==
  /\ call[p].pc = "labelGet"
  /\ LET f == Emit(call[p], <<"GET labels/AppCenter", call[p].auth>>)
     IN \E outcome \in LabelResponses :
          LET g == [f EXCEPT !.hasLabel = (outcome = "ok"),
                             !.labelResponse = outcome]
          IN call' = [call EXCEPT ![p] =
               IF ~g.hasLabel
               THEN [g EXCEPT !.pc = "labelCreate"]
               ELSE [g EXCEPT !.pc = "issueCreate"]]
  /\ UNCHANGED <<cache, issues, cloneVars, refsVars, urlVars>>

\* LabelCreate that goes on to the issue when the label was not created
LabelCreateIgnoreFailure(p) ==
  /\ call[p].pc = "labelCreate"
  /\ LET f == Emit(call[p], <<"POST labels", call[p].auth>>)
     IN \E outcome \in {"ok", "failed"} :
          call' = [call EXCEPT ![p] =
                     [f EXCEPT !.pc = "issueCreate", !.createResponse = outcome]]
  /\ UNCHANGED <<cache, issues, cloneVars, refsVars, urlVars>>

\* lines 349-359: the label is created; a rejection is not caught
LabelCreate(p) ==
  /\ call[p].pc = "labelCreate"
  /\ LET f == Emit(call[p], <<"POST labels", call[p].auth>>)
     IN \/ call' = [call EXCEPT ![p] =
                      [f EXCEPT !.pc = "issueCreate", !.createResponse = "ok"]]
        \/ call' = [call EXCEPT ![p] =
                      Throw([f EXCEPT !.createResponse = "failed"], "labelCreate")]
  /\ UNCHANGED <<cache, issues, cloneVars, refsVars, urlVars>>

\* the ids of the issues of the repository
IssuedIds == {i.id : i \in issues}

\* lines 361-371: the issue is created, with an id GitHub has not given
\* yet, and a new log is returned with that id; a rejection is not caught
IssueCreate(p) ==
  /\ call[p].pc = "issueCreate"
  /\ LET f == Emit(call[p], <<"POST issues", call[p].auth>>)
     IN \/ \E id \in IssueIds \ IssuedIds :
             /\ issues' = issues \cup
                  {[id |-> id, title |-> f.arg.title, body |-> f.arg.body]}
             /\ call' = [call EXCEPT ![p] =
                  [f EXCEPT !.pc = "done",
                            !.issueResponse = "ok",
                            !.body = [id |-> id],
                            !.ret = [tag |-> "log",
                                     val |-> [f.arg EXCEPT !.githubId = id]]]]
        \/ /\ call' = [call EXCEPT ![p] =
                  Throw([f EXCEPT !.issueResponse = "failed"], "issueCreate")]
           /\ UNCHANGED issues
  /\ UNCHANGED <<cache, cloneVars, refsVars, urlVars>>

\* ------------------------------------------------------------------------
\* clone and recursiveClone (github.ts:223-235, 453-460)
\* ------------------------------------------------------------------------
RefsTags100 ==
  <<"r", "e", "f", "s", "/", "t", "a", "g", "s", "/", "1", ".", "0", ".", "0">>

RefNames == {RefsHeadsMaster, RefsTags100}

\* A submodule is named by its path from the root of the clone: <<2, 1>> is
\* the first submodule declared by the second submodule of the repository.
SubmodulePaths ==
  UNION {[1..d -> 1..MaxSubmodules] : d \in 1..MaxSubmodules}

Parent(s) == SubSeq(s, 1, Len(s) - 1)

\* declarations form a tree: a declared submodule has a declared parent and
\* its earlier siblings are declared too
IsSubmoduleTree(t) ==
  \A s \in t :
    /\ Len(s) > 1 => Parent(s) \in t
    /\ s[Len(s)] > 1 => [s EXCEPT ![Len(s)] = @ - 1] \in t

\* the trees of at most n submodules, of any depth and width
RECURSIVE TreesOfAtMost(_)
TreesOfAtMost(n) ==
  IF n = 0 THEN {{}}
  ELSE LET smaller == TreesOfAtMost(n - 1)
       IN smaller \cup
            {u \in {t \cup {c} : t \in smaller, c \in SubmodulePaths} :
               IsSubmoduleTree(u)}

SubmoduleTrees == TreesOfAtMost(MaxSubmodules)

\* the submodules the repository at path s declares, in declaration order
NumSubmodules(t, s) ==
  Cardinality({c \in t : Len(c) = Len(s) + 1 /\ Parent(c) = s})

Remotes == [refs : SUBSET RefNames, submodules : SubmoduleTrees]

\* nothing on disk at the destination
EmptyDest ==
  [dotGit |-> {}, branch |-> FALSE, checkedOut |-> FALSE, updated |-> <<>>]

IdleClone ==
  [pc |-> "idle", arg |-> UNDEFINED, reference |-> UNDEFINED, stack |-> <<>>,
   steps |-> <<>>, err |-> "", hist |-> <<>>]

CloneThrow(f, e) == [f EXCEPT !.pc = "failed", !.err = e]

CloneEmit(f, e) == [f EXCEPT !.hist = Append(@, e)]

\* the operation begun on the repository or submodule at path s
CloneStep(f, kind, s) == [f EXCEPT !.steps = Append(@, <<kind, s>>)]

\* line 223: the call; the reference defaults to this.reference
CallClone ==
  /\ cl.pc = "idle"
  /\ \E arg \in RefNames \cup {UNDEFINED} :
       cl' = [cl EXCEPT !.pc = "Git.Clone", !.arg = arg,
                        !.reference = IF arg = UNDEFINED THEN RefsHeadsMaster ELSE arg]
  /\ UNCHANGED <<authVars, refsVars, urlVars, remote, dest>>

\* line 224: the repository is fetched into p, with its metadata directory
GitClone ==
  /\ cl.pc = "Git.Clone"
  /\ LET f == CloneEmit(cl, "Git.Clone")
     IN \/ /\ cl' = [f EXCEPT !.pc = "getReference"]
           /\ dest' = [dest EXCEPT !.dotGit = {<<>>}]
        \/ /\ cl' = CloneThrow(f, "Git.Clone")
           /\ dest' = dest
  /\ UNCHANGED <<authVars, refsVars, urlVars, remote>>

\* GetReference that goes on with the checked-out head when the reference
\* is missing
GetReferenceOrHead ==
  /\ cl.pc = "getReference"
  /\ LET f == CloneEmit(cl, "getReference")
     IN cl' = [f EXCEPT !.pc = "peel"]
  /\ UNCHANGED <<authVars, refsVars, urlVars, remote, dest>>

\* line 226: the reference is looked up in the clone
GetReference ==
  /\ cl.pc = "getReference"
  /\ LET f == CloneEmit(cl, "getReference")
     IN cl' = IF cl.reference \in remote.refs
              THEN [f EXCEPT !.pc = "peel"]
              ELSE CloneThrow(f, "getReference")
  /\ UNCHANGED <<authVars, refsVars, urlVars, remote, dest>>

\* line 227: the reference is peeled to its commit
Peel ==
  /\ cl.pc = "peel"
  /\ LET f == CloneEmit(cl, "peel")
     IN \/ cl' = [f EXCEPT !.pc = "createBranch"]
        \/ cl' = CloneThrow(f, "peel")
  /\ UNCHANGED <<authVars, refsVars, urlVars, remote, dest>>

\* line 228: the branch 'houston' is created, forced, at the commit
CreateBranch ==
  /\ cl.pc = "createBranch"
  /\ LET f == CloneEmit(cl, "createBranch")
     IN \/ /\ cl' = [f EXCEPT !.pc = "checkoutBranch"]
           /\ dest' = [dest EXCEPT !.branch = TRUE]
        \/ /\ cl' = CloneThrow(f, "createBranch")
           /\ dest' = dest
  /\ UNCHANGED <<authVars, refsVars, urlVars, remote>>

\* lines 230-232: the branch is checked out, then recursiveClone(p) is called
CheckoutBranch ==
  /\ cl.pc = "checkoutBranch"
  /\ LET f == CloneEmit(cl, "checkoutBranch")
     IN \/ /\ cl' = [f EXCEPT !.pc = "Repository.open",
                              !.stack = <<[path |-> <<>>, next |-> 1]>>]
           /\ dest' = [dest EXCEPT !.checkedOut = TRUE]
        \/ /\ cl' = CloneThrow(f, "checkoutBranch")
           /\ dest' = dest
  /\ UNCHANGED <<authVars, refsVars, urlVars, remote>>

\* the frame of the innermost recursiveClone call
Top == cl.stack[Len(cl.stack)]

\* line 454: the repository at clonePath is opened
RepositoryOpen ==
  /\ cl.pc = "Repository.open"
  /\ LET f == CloneStep(CloneEmit(cl, "Repository.open"), "open", Top.path)
     IN cl' = IF Top.path \in dest.dotGit
              THEN [f EXCEPT !.pc = "Submodule.foreach"]
              ELSE CloneThrow(f, "Repository.open")
  /\ UNCHANGED <<authVars, refsVars, urlVars, remote, dest>>

\* SubmoduleUpdate that does not call recursiveClone on the submodule
SubmoduleUpdateNoRecursion ==
  /\ cl.pc = "Submodule.foreach"
  /\ Top.next <= NumSubmodules(remote.submodules, Top.path)
  /\ LET child == Append(Top.path, Top.next)
         f == CloneStep(CloneEmit(cl, "submodule.update"), "update", child)
     IN \/ /\ cl' = [f EXCEPT !.stack[Len(cl.stack)].next = @ + 1]
           /\ dest' = [dest EXCEPT !.dotGit = @ \cup {child},
                                   !.updated = Append(@, child)]
        \/ /\ cl' = CloneThrow(f, "submodule.update")
           /\ dest' = dest
  /\ UNCHANGED <<authVars, refsVars, urlVars, remote>>

\* lines 456-458: the next submodule is updated, then recursiveClone is
\* called on its directory
SubmoduleUpdate ==
  /\ cl.pc = "Submodule.foreach"
  /\ Top.next <= NumSubmodules(remote.submodules, Top.path)
  /\ LET child == Append(Top.path, Top.next)
         f == CloneStep(CloneEmit(cl, "submodule.update"), "update", child)
     IN \/ /\ cl' = [f EXCEPT !.pc = "Repository.open",
                              !.stack = Append(@, [path |-> child, next |-> 1])]
           /\ dest' = [dest EXCEPT !.dotGit = @ \cup {child},
                                   !.updated = Append(@, child)]
        \/ /\ cl' = CloneThrow(f, "submodule.update")
           /\ dest' = dest
  /\ UNCHANGED <<authVars, refsVars, urlVars, remote>>

\* RecursiveCloneReturn that ends the walk when any recursiveClone returns
RecursiveCloneReturnToClone ==
  /\ cl.pc = "Submodule.foreach"
  /\ Top.next > NumSubmodules(remote.submodules, Top.path)
  /\ cl' = [cl EXCEPT !.pc = "fs.remove", !.stack = <<>>]
  /\ UNCHANGED <<authVars, refsVars, urlVars, remote, dest>>

\* lines 456-460: no submodule is left; recursiveClone returns, to the
\* callback of its parent or to clone at line 234
RecursiveCloneReturn ==
  /\ cl.pc = "Submodule.foreach"
  /\ Top.next > NumSubmodules(remote.submodules, Top.path)
  /\ LET n == Len(cl.stack)
     IN cl' = IF n = 1
              THEN [cl EXCEPT !.pc = "fs.remove", !.stack = <<>>]
              ELSE [cl EXCEPT !.stack =
                      [SubSeq(@, 1, n - 1) EXCEPT ![n - 1].next = @ + 1]]
  /\ UNCHANGED <<authVars, refsVars, urlVars, remote, dest>>

\* FsRemove that removes another path than p/.git
FsRemoveOtherPath ==
  /\ cl.pc = "fs.remove"
  /\ LET f == CloneEmit(cl, "fs.remove")
     IN \/ /\ cl' = [f EXCEPT !.pc = "done"]
           /\ dest' = dest
        \/ /\ cl' = CloneThrow(f, "fs.remove")
           /\ dest' = dest
  /\ UNCHANGED <<authVars, refsVars, urlVars, remote>>

\* line 234: the metadata directory of p is removed
FsRemove ==
  /\ cl.pc = "fs.remove"
  /\ LET f == CloneEmit(cl, "fs.remove")
     IN \/ /\ cl' = [f EXCEPT !.pc = "done"]
           /\ dest' = [dest EXCEPT !.dotGit = @ \ {<<>>}]
        \/ /\ cl' = CloneThrow(f, "fs.remove")
           /\ dest' = dest
  /\ UNCHANGED <<authVars, refsVars, urlVars, remote>>

\* ------------------------------------------------------------------------
\* references (github.ts:244-253)
\* ------------------------------------------------------------------------
IdleReferences ==
  [pc |-> "idle", calls |-> 0, path |-> 0, branches |-> {},
   ret |-> [tag |-> "none", val |-> {}], err |-> "", hist |-> <<>>]

\* line 245: a fresh directory name under tmpFolder, uuid() of the n-th call
Uuid(n) == n

\* lines 245-246: the call; the path is made up and the clone started
CallReferences ==
  /\ rf.pc \in {"idle", "done", "failed"}
  /\ rf.calls < MaxReferencesCalls
  /\ rf' = [IdleReferences EXCEPT !.pc = "Git.Clone", !.calls = rf.calls + 1,
                                  !.path = Uuid(rf.calls + 1)]
  /\ UNCHANGED <<authVars, cloneVars, urlVars, tmp>>

\* line 246: the repository is cloned into the temporary path
ReferencesGitClone ==
  /\ rf.pc = "Git.Clone"
  /\ LET f == CloneEmit(rf, "Git.Clone")
     IN \/ /\ rf' = [f EXCEPT !.pc = "getReferenceNames"]
           /\ tmp' = tmp \cup {rf.path}
        \/ /\ rf' = CloneThrow(f, "Git.Clone")
           /\ tmp' = tmp
  /\ UNCHANGED <<authVars, cloneVars, urlVars>>

\* line 248: the names of all references of the clone are listed
GetReferenceNames ==
  /\ rf.pc = "getReferenceNames"
  /\ LET f == CloneEmit(rf, "getReferenceNames")
     IN \/ rf' = [f EXCEPT !.pc = "fs.remove", !.branches = remote.refs]
        \/ rf' = CloneThrow(f, "getReferenceNames")
  /\ UNCHANGED <<authVars, cloneVars, urlVars, tmp>>

\* lines 250-252: the temporary clone is removed and the names returned
ReferencesFsRemove ==
  /\ rf.pc = "fs.remove"
  /\ LET f == CloneEmit(rf, "fs.remove")
     IN \/ /\ rf' = [f EXCEPT !.pc = "done",
                              !.ret = [tag |-> "names", val |-> f.branches]]
           /\ tmp' = tmp \ {rf.path}
        \/ /\ rf' = CloneThrow(f, "fs.remove")
           /\ tmp' = tmp
  /\ UNCHANGED <<authVars, cloneVars, urlVars>>

\* ------------------------------------------------------------------------
\* Assignments and reads of the url property (github.ts:166-213)
\* ------------------------------------------------------------------------
\* a URL string is assigned to the url property of the object
AssignUrl ==
  /\ \E i \in UrlInputs :
       LET r == SetUrl(gh, Render(i))
       IN /\ gh' = r.gh
          /\ res' = [op |-> "set", arg |-> i, threw |-> r.threw, val |-> UNDEFINED]
  /\ UNCHANGED <<authVars, cloneVars, refsVars>>

\* the url property of the object is read
ReadUrl ==
  /\ res.op # "get"
  /\ res' = [op |-> "get", arg |-> res.arg, threw |-> FALSE, val |-> Url(gh)]
  /\ UNCHANGED <<authVars, cloneVars, refsVars, gh>>

\* ------------------------------------------------------------------------
\* Specification
\* ------------------------------------------------------------------------
\* no issue created, nothing under tmpFolder, no references call
InitRepository ==
  /\ issues = {}
  /\ tmp = {}
  /\ rf = IdleReferences

\* a GitHub object as the class initialises it (github.ts:51, 88)
InitGitHub ==
  /\ gh = NewGitHub
  /\ res = NoResult

Init ==
  /\ cache = [k \in InstallationIds |-> NULL]
  /\ call = [p \in Callers |-> IdleFrame]
  /\ remote = [refs |-> {}, submodules |-> {}]
  /\ dest = EmptyDest
  /\ cl = IdleClone
  /\ InitRepository
  /\ InitGitHub

Next ==
  \/ \E p \in Callers : CallGetAuthorization(p)
  \/ \E p \in Callers : CacheGet(p)
  \/ \E p \in Callers : GenerateJwtReadFile(p)
  \/ \E p \in Callers : GenerateJwtSign(p)
  \/ \E p \in Callers : GenerateTokenPost(p)
  \/ \E p \in Callers : CacheSet(p)
  \/ CacheExpire

Spec == Init /\ [][Next]_vars

\* The release pipeline: one caller publishing, call after call
Publisher == CHOOSE p \in Callers : \A q \in Callers : p <= q

NextPublish ==
  \/ CallGetAuthorization(Publisher)
  \/ CallUploadPackage(Publisher)
  \/ CallUploadLog(Publisher)
  \/ CacheGet(Publisher)
  \/ GenerateJwtReadFile(Publisher)
  \/ GenerateJwtSign(Publisher)
  \/ GenerateTokenPost(Publisher)
  \/ CacheSet(Publisher)
  \/ LabelGet(Publisher)
  \/ LabelCreate(Publisher)
  \/ IssueCreate(Publisher)
  \/ CacheExpire

SpecPublish == Init /\ [][NextPublish]_vars

\* One clone of a repository of any shape into an empty destination
InitClone ==
  /\ cache = [k \in InstallationIds |-> NULL]
  /\ call = [p \in Callers |-> IdleFrame]
  /\ remote \in Remotes
  /\ dest = EmptyDest
  /\ cl = IdleClone
  /\ InitRepository
  /\ InitGitHub

NextClone ==
  \/ CallClone
  \/ GitClone
  \/ GetReference
  \/ Peel
  \/ CreateBranch
  \/ CheckoutBranch
  \/ RepositoryOpen
  \/ SubmoduleUpdate
  \/ RecursiveCloneReturn
  \/ FsRemove

SpecClone == InitClone /\ [][NextClone]_vars

\* every awaited operation of clone settles: it completes or it fails
SpecCloneFair == SpecClone /\ WF_vars(NextClone)

\* references() called on a repository of any shape, call after call
NextReferences ==
  \/ CallReferences
  \/ ReferencesGitClone
  \/ GetReferenceNames
  \/ ReferencesFsRemove

SpecReferences == InitClone /\ [][NextReferences]_vars

\* URL strings assigned to one GitHub object, and reads of its url
NextUrl ==
  \/ AssignUrl
  \/ ReadUrl

SpecUrl == Init /\ [][NextUrl]_vars

\* ------------------------------------------------------------------------
\* Properties of getAuthorization
\* ------------------------------------------------------------------------
InstallationMode(f) == f.op # "none" /\ f.self.authUsername = Installation

\* the call of caller p is a finished getAuthorization
ReturnedAuth(p) == call[p].op = "getAuthorization" /\ call[p].pc = "done"

\* the events of a call that missed the cache and exchanged token t
MissHistory(key, t) ==
  << <<"cache.get", key>>,
     <<"generateToken", TemplateNumber(Number(key))>>,
     <<"fs.readFile">>,
     <<"jsonwebtoken.sign">>,
     <<"POST access_tokens", TemplateNumber(Number(key))>>,
     <<"cache.set", key, t>> >>

C1_Returned ==
  \A p \in Callers :
    (ReturnedAuth(p) /\ InstallationMode(call[p])) =>
      LET f == call[p]
          key == f.self.authPassword
      IN IF f.cachedToken = NULL
         THEN /\ f.token \in Tokens
              /\ f.hist = MissHistory(key, f.token)
              /\ CountKind(f.hist, {"POST access_tokens"}) = 1
              /\ f.ret.val = TokenPrefix \o f.token
         ELSE /\ f.hist = << <<"cache.get", key>> >>
              /\ CountKind(f.hist, NetworkKinds) = 0
              /\ f.ret.val = TokenPrefix \o f.cachedToken

C1_Step ==
  \A p \in Callers :
    LET key == call[p].self.authPassword
    IN /\ (call[p].pc = "cache.set" /\ call'[p].pc # "cache.set") =>
            cache'[key] = call[p].token
       /\ (call[p].pc = "cache.get" /\ call'[p].pc # "cache.get"
             /\ call[p].op = "getAuthorization" /\ cache[key] # NULL) =>
            /\ call'[p].pc = "done"
            /\ call'[p].ret.val = TokenPrefix \o cache[key]
            /\ cache' = cache

\* C1: in installation mode a getAuthorization call that finds no entry
\* under its id makes exactly one token exchange, stores the exchanged
\* token in the cache under the id and returns "token " + that token; a
\* call that finds the entry makes no exchange and returns "token " + the
\* cached value.
C1_MissExchangesOnceHitReturnsCached == []C1_Returned /\ [][C1_Step]_vars

\* a call hit the entry that an earlier call of another caller had stored
C1_Witness ==
  \E p, q \in Callers :
    /\ p # q
    /\ ReturnedAuth(p) /\ InstallationMode(call[p]) /\ call[p].cachedToken = NULL
    /\ ReturnedAuth(q) /\ InstallationMode(call[q])
    /\ call[q].self.authPassword = call[p].self.authPassword
    /\ call[q].cachedToken = call[p].token
    /\ call[q].ret.val = TokenPrefix \o call[p].token

C2_Returned ==
  \A p \in Callers :
    (ReturnedAuth(p) /\ ~InstallationMode(call[p])) =>
      /\ call[p].hist = <<>>
      /\ call[p].ret.tag = "string"
      /\ call[p].ret.val =
           BearerPrefix \o (IF call[p].self.authPassword = NULL
                            THEN <<"n", "u", "l", "l">>
                            ELSE call[p].self.authPassword)

C2_Step ==
  \A p \in Callers :
    (CanCall(p) /\ call'[p] # call[p]
       /\ call'[p].op = "getAuthorization" /\ ~InstallationMode(call'[p])) =>
      /\ call'[p].pc = "done"
      /\ cache' = cache

\* C2: for an identity whose authUsername is not "installation" (absent
\* included), getAuthorization makes no network call, no cache read and no
\* cache write, and returns "Bearer " + authPassword, whatever the cache holds.
C2_StaticCredentialIsBearer == []C2_Returned /\ [][C2_Step]_vars

\* a static call returned while the cache held an entry
C2_Witness ==
  \E p \in Callers :
    /\ ReturnedAuth(p)
    /\ call[p].self.authUsername = XAccessToken
    /\ call[p].ret.val = BearerPrefix \o <<"t", "o", "k">>
    /\ \E k \in InstallationIds : cache[k] # NULL

\* caller p is in installation mode on key k and has read a miss
ObservedMiss(p, k) ==
  /\ InstallationMode(call[p])
  /\ call[p].self.authPassword = k
  /\ call[p].cachedToken = NULL
  /\ call[p].pc \in {"generateJwt.readFile", "generateJwt.sign",
                     "generateToken.post", "cache.set", "done"}

C3_Returned ==
  \A p, q \in Callers : \A k \in InstallationIds :
    (p # q /\ ObservedMiss(p, k) /\ ObservedMiss(q, k)
       /\ ReturnedAuth(p) /\ ReturnedAuth(q)) =>
      /\ CountKind(call[p].hist, {"POST access_tokens"}) = 1
      /\ CountKind(call[q].hist, {"POST access_tokens"}) = 1
      /\ call[p].hist[Len(call[p].hist)] = <<"cache.set", k, call[p].token>>
      /\ call[q].hist[Len(call[q].hist)] = <<"cache.set", k, call[q].token>>
      /\ call[p].ret.val = TokenPrefix \o call[p].token
      /\ call[q].ret.val = TokenPrefix \o call[q].token

\* the write of p comes after the write of q, which also observed a miss
C3_Step ==
  \A p, q \in Callers : \A k \in InstallationIds :
    (p # q /\ ObservedMiss(p, k) /\ ObservedMiss(q, k)
       /\ call[q].pc = "done"
       /\ call[p].pc = "cache.set" /\ call'[p].pc # "cache.set") =>
      /\ cache'[k] = call[p].token
      /\ call'[p].ret.val = TokenPrefix \o call[p].token
      /\ call'[q] = call[q]

\* C3: two concurrent getAuthorization calls for one installation id that
\* both observe a miss each make their own exchange and each write their
\* own token; the later write replaces the earlier one, and each caller
\* returns "token " + its own token.
C3_ConcurrentMissesLastWriteWins == []C3_Returned /\ [][C3_Step]_vars

\* both callers missed, got different tokens, and the cache holds the
\* token of p although q has written its own
C3_Witness ==
  \E p, q \in Callers : \E k \in InstallationIds :
    /\ p # q
    /\ ObservedMiss(p, k) /\ ObservedMiss(q, k)
    /\ ReturnedAuth(p) /\ ReturnedAuth(q)
    /\ call[p].token # call[q].token
    /\ cache[k] = call[p].token

\* ------------------------------------------------------------------------
\* Properties of uploadPackage and uploadLog
\* ------------------------------------------------------------------------
Returned(p, op) == call[p].op = op /\ call[p].pc = "done"

\* C4: uploadPackage of a package whose githubId is set makes no network
\* call, no cache access and no file read, and returns the package with
\* every field unchanged.
C4_PublishedPackageIsNoOp ==
  \A p \in Callers :
    (Returned(p, "uploadPackage") /\ call[p].arg.githubId # NULL) =>
      /\ CountKind(call[p].hist, NetworkKinds \cup CacheKinds \cup FileKinds) = 0
      /\ call[p].hist = <<>>
      /\ call[p].ret.tag = "package"
      /\ call[p].ret.val = call[p].arg

C4_Witness ==
  \E p \in Callers :
    /\ Returned(p, "uploadPackage")
    /\ call[p].arg.githubId = <<"5">>
    /\ call[p].ret.val.githubId = <<"5">>

\* C5: uploadLog of a log whose githubId is set makes no network call and
\* returns the input log unchanged.
C5_PublishedLogIsReturned ==
  \A p \in Callers :
    (Returned(p, "uploadLog") /\ call[p].arg.githubId # NULL) =>
      /\ CountKind(call[p].hist, NetworkKinds) = 0
      /\ call[p].ret.tag = "log"
      /\ call[p].ret.val = call[p].arg

\* C6: uploadPackage of a package whose githubId is not set never returns
\* without having obtained the Authorization header, fetched the release,
\* sniffed the MIME type and issued exactly one upload request, in that order.
C6_UnpublishedPackageIsUploaded ==
  \A p \in Callers :
    (Returned(p, "uploadPackage") /\ call[p].arg.githubId = NULL) =>
      LET h == call[p].hist
      IN /\ CountKind(h, {"POST upload"}) = 1
         /\ \E i, j, k \in 1..Len(h) :
              /\ i < j /\ j < k
              /\ h[i][1] = "GET releases/tags"
              /\ h[j][1] = "fs.open"
              /\ h[k][1] = "POST upload"

\* the errors of the token exchange
ExchangeErrors == {"readFile", "sign", "exchange"}

C7_Failed ==
  \A p \in Callers :
    (call[p].pc = "failed" /\ call[p].err \in ExchangeErrors) =>
      LET h == call[p].hist
      IN /\ InstallationMode(call[p])
         /\ call[p].cachedToken = NULL
         /\ call[p].ret.tag = "none"
         /\ CountKind(h, {"generateToken"}) = 1
         /\ CountKind(h, {"fs.readFile"}) = 1
         /\ CountKind(h, {"jsonwebtoken.sign"}) = (IF call[p].err = "readFile" THEN 0 ELSE 1)
         /\ CountKind(h, {"POST access_tokens"}) = (IF call[p].err = "exchange" THEN 1 ELSE 0)
         /\ CountKind(h, {"cache.set"}) = 0
         /\ CountKind(h, {"GET labels/AppCenter", "POST labels", "POST issues"}) = 0

C7_Step ==
  \A p \in Callers :
    (call'[p].pc = "failed" /\ call[p].pc # "failed"
       /\ call'[p].err \in ExchangeErrors) =>
      cache' = cache

\* C7: when the token exchange of an installation-mode getAuthorization
\* fails (key read, signing, or exchange response), the call fails with
\* that error after exactly one exchange attempt, writes nothing to the
\* cache, and an enclosing uploadLog issues no label or issue request.
C7_ExchangeFailureIsFatal == []C7_Failed /\ [][C7_Step]_vars

\* an uploadLog failed on the exchange response
C7_Witness ==
  \E p \in Callers :
    /\ call[p].op = "uploadLog"
    /\ call[p].pc = "failed"
    /\ call[p].err = "exchange"
    /\ cache[call[p].self.authPassword] = NULL

\* ------------------------------------------------------------------------
\* Properties of clone and recursiveClone
\* ------------------------------------------------------------------------
\* C8: a clone call that completes leaves no metadata directory ('.git')
\* at the destination path, for every shape of the repository and every
\* existing reference.
C8_CloneLeavesNoMetadata ==
  cl.pc = "done" =>
    /\ <<>> \notin dest.dotGit
    /\ cl.reference \in remote.refs
    /\ dest.checkedOut

\* a clone of the tag of a repository with nested submodules completed
C8_Witness ==
  /\ cl.pc = "done"
  /\ cl.reference = RefsTags100
  /\ \E s \in remote.submodules : Len(s) = 2
  /\ <<>> \notin dest.dotGit

\* C9: clone with a reference that the cloned repository does not have
\* fails with the error of the lookup, after one clone and one lookup, and
\* does none of the later steps: no branch, no checkout, no submodule
\* update, and the metadata directory stays.
C9_MissingReferenceFails ==
  /\ (cl.pc = "failed" /\ cl.err = "getReference") =>
       /\ cl.reference \notin remote.refs
       /\ cl.hist = <<"Git.Clone", "getReference">>
       /\ ~dest.branch
       /\ ~dest.checkedOut
       /\ dest.updated = <<>>
       /\ dest.dotGit = {<<>>}
  /\ (cl.pc # "idle" /\ cl.reference \notin remote.refs) =>
       \/ cl.pc \in {"Git.Clone", "getReference"}
       \/ cl.pc = "failed" /\ cl.err \in {"Git.Clone", "getReference"}

\* the tag was asked for and the repository has no such tag
C9_Witness ==
  /\ cl.pc = "failed"
  /\ cl.err = "getReference"
  /\ cl.arg = RefsTags100
  /\ remote.refs = {RefsHeadsMaster}
  /\ remote.submodules # {}

\* the number of times submodule s has been updated
TimesUpdated(s) ==
  Cardinality({i \in 1..Len(dest.updated) : dest.updated[i] = s})

\* recursiveClone(p) has returned to clone
RecursiveCloneReturned ==
  \/ cl.pc \in {"fs.remove", "done"}
  \/ cl.pc = "failed" /\ cl.err = "fs.remove"

C10_AllUpdatedOnce ==
  /\ \A s \in SubmodulePaths : TimesUpdated(s) <= 1
  /\ RecursiveCloneReturned =>
       /\ \A s \in remote.submodules : TimesUpdated(s) = 1
       /\ Len(dest.updated) = Cardinality(remote.submodules)

\* C10: for every finite tree of submodule declarations, recursiveClone
\* comes to an end, and when it returns it has updated every submodule
\* declared at any depth exactly once.
C10_RecursiveCloneUpdatesAll ==
  /\ (cl.pc = "Repository.open" /\ Len(cl.stack) = 1)
       ~> (RecursiveCloneReturned \/ cl.pc = "failed")
  /\ []C10_AllUpdatedOnce

\* recursiveClone returned from a tree with a nested submodule that has an
\* earlier sibling
C10_Witness ==
  /\ RecursiveCloneReturned
  /\ \E s \in remote.submodules :
       /\ Len(s) = 2
       /\ s[2] = 2
       /\ TimesUpdated(s) = 1
       /\ TimesUpdated(Parent(s)) = 1

\* ------------------------------------------------------------------------
\* Properties of references
\* ------------------------------------------------------------------------
\* the references call is over and its temporary clone had been created
ReferencesFinishedAfterClone ==
  \/ rf.pc = "done"
  \/ rf.pc = "failed" /\ rf.err # "Git.Clone"

\* C11: after references() finishes, by returning the names or by failing
\* at any step after the temporary clone was created, the temporary clone
\* directory it created under tmpFolder no longer exists.
C11_ReferencesLeavesNoResidue ==
  ReferencesFinishedAfterClone => rf.path \notin tmp

\* ------------------------------------------------------------------------
\* Properties of uploadLog
\* ------------------------------------------------------------------------
\* the position in h of the first event of the kind, 0 when there is none
FirstOf(h, kind) ==
  IF \E i \in 1..Len(h) : h[i][1] = kind
  THEN CHOOSE i \in 1..Len(h) :
         h[i][1] = kind /\ \A j \in 1..(i - 1) : h[j][1] # kind
  ELSE 0

\* the label request of the call has been answered
LabelAnswered(f) == f.op = "uploadLog" /\ f.labelResponse # "none"

C12_State ==
  \A p \in Callers :
    LET f == call[p]
        h == f.hist
    IN f.op = "uploadLog" =>
         /\ f.err # "labelGet"
         /\ CountKind(h, {"GET labels/AppCenter"}) <= 1
         /\ f.pc = "labelCreate" =>
              f.labelResponse \in LabelResponses \ {"ok"}
                /\ CountKind(h, {"POST labels"}) = 0
         /\ (LabelAnswered(f) /\ f.pc # "labelCreate") =>
              CountKind(h, {"POST labels"}) =
                (IF f.labelResponse = "ok" THEN 0 ELSE 1)
         /\ ~LabelAnswered(f) =>
              CountKind(h, {"POST labels", "POST issues"}) = 0
         /\ FirstOf(h, "POST issues") # 0 =>
              /\ CountKind(h, {"POST issues"}) = 1
              /\ FirstOf(h, "POST issues") = Len(h)
              /\ FirstOf(h, "GET labels/AppCenter") # 0
              /\ f.labelResponse # "ok" => FirstOf(h, "POST labels") = Len(h) - 1

C12_Step ==
  \A p \in Callers :
    (call[p].pc = "labelGet" /\ call'[p] # call[p]) =>
      /\ call'[p].labelResponse \in LabelResponses
      /\ call'[p].pc =
           (IF call'[p].labelResponse = "ok" THEN "issueCreate" ELSE "labelCreate")

\* C12: in uploadLog of an unpublished log the label is created if and
\* only if the request for the label failed, for whatever reason; that
\* failure never fails the call; and the issue is created only after the
\* label request and, when needed, the label creation have completed.
C12_LabelCreatedIffProbeFailed == []C12_State /\ [][C12_Step]_vars

\* the label request got no answer from the network, and the call went on
\* to create the label and then the issue
C12_Witness ==
  \E p \in Callers :
    /\ Returned(p, "uploadLog")
    /\ call[p].labelResponse = "network"
    /\ CountKind(call[p].hist, {"POST labels"}) = 1
    /\ call[p].ret.tag = "log"

\* C17: in uploadLog a failed label creation fails the call and no issue
\* request is made; a failed issue creation fails the call and no log
\* carrying a githubId is returned.
C17_CreationFailuresAreFatal ==
  \A p \in Callers :
    LET f == call[p]
    IN f.op = "uploadLog" =>
         /\ f.createResponse = "failed" =>
              /\ f.pc = "failed" /\ f.err = "labelCreate"
              /\ CountKind(f.hist, {"POST issues"}) = 0
              /\ f.ret.tag = "none"
         /\ f.issueResponse = "failed" =>
              /\ f.pc = "failed" /\ f.err = "issueCreate"
              /\ f.ret.tag = "none"
              /\ f.body.id = UNDEFINED

\* the label was missing and its creation was rejected
C17_Witness ==
  \E p \in Callers :
    /\ call[p].op = "uploadLog"
    /\ call[p].labelResponse = "notFound"
    /\ call[p].createResponse = "failed"
    /\ call[p].pc = "failed"

\* the call of uploadLog is running
Running(f) == f.op = "uploadLog" /\ f.pc \notin {"idle", "done", "failed"}

C19_State ==
  \A p \in Callers :
    LET f == call[p]
    IN /\ (Returned(p, "uploadLog") /\ f.arg.githubId = NULL) =>
            /\ f.ret.tag = "log"
            /\ f.ret.val.title = f.arg.title
            /\ f.ret.val.body = f.arg.body
            /\ f.ret.val.githubId = f.body.id
            /\ f.body.id \in IssuedIds
       /\ (f.op = "uploadLog" /\ f.arg.githubId # NULL) =>
            /\ f.pc = "done"
            /\ f.hist = <<>>

C19_Step ==
  /\ \A p \in Callers :
       Running(call[p]) =>
         /\ call'[p].arg = call[p].arg
         /\ issues' # issues => call[p].arg.githubId = NULL
  /\ \A p \in Callers :
       (call'[p].op = "uploadLog" /\ call'[p].arg.githubId # NULL
          /\ call'[p] # call[p]) => issues' = issues
  /\ Cardinality(issues') <= Cardinality(issues) + 1

\* C19: a successful uploadLog of an unpublished log returns a new log with
\* the title and body of the input and the id of the created issue as
\* githubId, the input is not mutated, and uploadLog of the returned log
\* makes no request, so that publishing again creates no further issue.
C19_RepublishCreatesOneIssue == []C19_State /\ [][C19_Step]_vars

\* the log returned by a first uploadLog has been handed to a second one,
\* which returned with the one issue still the only one
C19_Witness ==
  \E p \in Callers :
    /\ Returned(p, "uploadLog")
    /\ call[p].arg.githubId \in IssuedIds
    /\ call[p].hist = <<>>
    /\ Cardinality(issues) = 1

\* ------------------------------------------------------------------------
\* Order of the submodule walk
\* ------------------------------------------------------------------------
\* the steps of a depth-first walk, in declaration order, of the submodules
\* the repository at s declares from its i-th on: each is updated, then
\* opened and walked, before the next
RECURSIVE Walk(_, _, _)
Walk(t, s, i) ==
  IF i > NumSubmodules(t, s) THEN <<>>
  ELSE LET c == Append(s, i)
       IN <<<<"update", c>>, <<"open", c>>>> \o Walk(t, c, 1) \o Walk(t, s, i + 1)

DepthFirst(t) == <<<<"open", <<>>>>>> \o Walk(t, <<>>, 1)

IsUpdate(e) == e[1] = "update"

\* the paths of the updates among the steps
RECURSIVE UpdatesOf(_)
UpdatesOf(steps) ==
  IF steps = <<>> THEN <<>>
  ELSE (IF IsUpdate(Head(steps)) THEN <<Head(steps)[2]>> ELSE <<>>)
         \o UpdatesOf(Tail(steps))

IsPrefix(a, b) == Len(a) <= Len(b) /\ a = SubSeq(b, 1, Len(a))

RemovalBegun == \E i \in 1..Len(cl.hist) : cl.hist[i] = "fs.remove"

\* C18: clone walks the submodules one at a time, depth-first and in
\* declaration order: a submodule is updated before it is opened for its
\* own submodules and its subtree is finished before its next sibling is
\* updated; the removal of the metadata directory begins only when every
\* submodule at every depth has been updated.
C18_DepthFirstThenRemoval ==
  LET walk == DepthFirst(remote.submodules)
  IN /\ IsPrefix(cl.steps, walk)
     /\ IsPrefix(dest.updated, UpdatesOf(walk))
     /\ RemovalBegun =>
          /\ cl.steps = walk
          /\ dest.updated = UpdatesOf(walk)

\* the removal has begun on a repository whose first submodule has one of
\* its own and a later sibling
C18_Witness ==
  /\ RemovalBegun
  /\ {<<1>>, <<1, 1>>, <<2>>} \subseteq remote.submodules
  /\ Len(dest.updated) >= 3

\* ------------------------------------------------------------------------
\* Ownership of the cache entries
\* ------------------------------------------------------------------------
ExchangeKinds ==
  {"generateToken", "fs.readFile", "jsonwebtoken.sign", "POST access_tokens"}

\* the call read a miss under key k and then had its exchange request for
\* the installation of that key answered with the token it holds
ExchangedAfterMiss(f, k) ==
  /\ InstallationMode(f)
  /\ f.self.authPassword = k
  /\ f.cachedToken = NULL
  /\ f.token \in Tokens
  /\ Len(f.hist) = 5
  /\ f.hist[1] = <<"cache.get", k>>
  /\ f.hist[5] = <<"POST access_tokens", TemplateNumber(Number(k))>>
  /\ CountKind(f.hist, {"POST access_tokens"}) = 1

\* caller p takes the step of its cache write
Writes(p) == call[p].pc = "cache.set" /\ call'[p] # call[p]

C20_Step ==
  /\ \A p \in Callers :
       Writes(p) =>
         \E k \in InstallationIds :
           /\ ExchangedAfterMiss(call[p], k)
           /\ cache' = [cache EXCEPT ![k] = call[p].token]
  /\ cache' # cache =>
       \/ \E p \in Callers : Writes(p)
       \/ call' = call
  /\ \A k \in InstallationIds :
       (cache[k] # NULL /\ cache'[k] = NULL) => call' = call

C20_HitNeverExchanges ==
  \A p \in Callers :
    (InstallationMode(call[p]) /\ call[p].cachedToken # NULL) =>
      /\ CountKind(call[p].hist, ExchangeKinds \cup {"cache.set"}) = 0
      /\ call[p].token = NULL

\* C20: whatever the interleaving of getAuthorization calls, a cache write
\* stores, under the installation id of the writing call, the token that
\* call obtained from its own successful exchange for that id after it
\* read a miss; no step of a call removes or empties an entry; and a call
\* that read a hit makes no exchange.
C20_WritesOwnExchangedToken == [][C20_Step]_vars /\ []C20_HitNeverExchanges

\* one caller missed, exchanged and wrote; another then read that entry
\* and returned it
C20_Witness ==
  \E p, q \in Callers : \E k \in InstallationIds :
    /\ p # q
    /\ ObservedMiss(p, k) /\ ReturnedAuth(p)
    /\ cache[k] = call[p].token
    /\ ReturnedAuth(q) /\ InstallationMode(call[q])
    /\ call[q].self.authPassword = k
    /\ call[q].cachedToken = call[p].token
    /\ call[q].hist = << <<"cache.get", k>> >>

\* ------------------------------------------------------------------------
\* Properties of the url setter and getter
\* ------------------------------------------------------------------------
\* the state other than the GitHub object and the record of the accessors
ioVars == <<authVars, cloneVars, refsVars>>

C13_Step ==
  (res' # res /\ res'.op = "set" /\ IndexOf(Render(res'.arg), Github) = -1) =>
    /\ res'.threw
    /\ gh' = gh
    /\ UNCHANGED ioVars

C13_State ==
  (res.op = "set" /\ IndexOf(Render(res.arg), Github) = -1) => res.threw

\* C13: the assignment to url of a string that does not contain the token
\* of the hosting domain always throws, makes no network call, and leaves
\* host, username, repository, authUsername, authPassword and reference
\* as they were.
C13_ForeignUrlIsRejected == [][C13_Step]_vars /\ []C13_State

\* a URL of another host was assigned to an object that already named a
\* repository, and was refused
C13_Witness ==
  /\ res.op = "set"
  /\ res.arg.host = GitlabCom
  /\ res.arg.form = "https"
  /\ res.threw
  /\ gh.repository = <<"n">>
  /\ gh.authUsername = Installation

\* the URL u is an https URL of the repository owner/name on host
Denotes(u, host, owner, name) ==
  LET url == NewURL(u)
  IN /\ StartsWith(u, HttpsSlashes)
     /\ url.ok
     /\ url.host = host
     /\ Split(url.pathname, "/") = << <<>>, owner, name \o DotGit >>

AcceptedForms == {"https", "ssh", "colon"}

\* C14: for every accepted form of a URL of a repository, the url read
\* after the assignment of the URL is an https URL of the same host, owner
\* and name.
C14_UrlRoundTrip ==
  (res.op = "get" /\ res.arg.form \in AcceptedForms
     /\ IsGitHub(Render(res.arg))) =>
    Denotes(res.val, res.arg.host, res.arg.owner, res.arg.name)

\* C15: a URL with a user name and no password leaves the object with
\* authUsername 'x-access-token' and the user name as authPassword; after
\* a successful assignment the object never has an authUsername without
\* an authPassword.
C15_UsernameOnlyIsToken ==
  /\ (res.op = "set" /\ ~res.threw /\ res.arg.userinfo[1] # <<>>
        /\ res.arg.userinfo[2] = <<>>) =>
       /\ gh.authUsername = XAccessToken
       /\ gh.authPassword = res.arg.userinfo[1]
  /\ NotNullish(gh.authUsername) => NotNullish(gh.authPassword)

\* https://u@github.example.com/o/m.git has been assigned
C15_Witness ==
  /\ res.op = "set"
  /\ ~res.threw
  /\ res.arg.userinfo = << <<"u">>, <<>> >>
  /\ res.arg.host = GithubExampleCom
  /\ gh.authPassword = <<"u">>

\* C16: when authUsername is the sentinel 'installation', the URL the
\* getter returns carries no credentials: no user name or password, and
\* neither the sentinel nor the installation id anywhere in it.
C16_InstallationUrlHasNoCredentials ==
  (res.op = "get" /\ gh.authUsername = Installation) =>
    /\ IndexOf(res.val, <<"@">>) = -1
    /\ IndexOf(res.val, Installation) = -1
    /\ IndexOf(res.val, gh.authPassword) = -1
    /\ NewURL(res.val).ok
    /\ NewURL(res.val).username = <<>>
    /\ NewURL(res.val).password = <<>>
    /\ res.val = HttpsSlashes \o gh.host \o <<"/">> \o gh.username \o <<"/">>
                   \o gh.repository \o DotGit

\* the url of an object with installation id 42 has been read
C16_Witness ==
  /\ res.op = "get"
  /\ gh.authUsername = Installation
  /\ gh.authPassword = <<"4", "2">>
  /\ gh.host = GithubCom
====
